---- MODULE Spec2Model ----
(***************************************************************************)
(* The socket.io core of the chat backend: the presence registry           *)
(* (connectedUsers), the typing tracker (typingUsers), the direct and room *)
(* message handlers with their awaited store calls, and the disconnect     *)
(* handler.  The repository holds two generations of the socket server:    *)
(* the current one (src/server.js:38-163) and an older one                 *)
(* (src/unnamed/part_000:44-81, repeated at src/server.js:344-386) that    *)
(* has only register / send_message / disconnect and no try/catch.         *)
(* `variant` says which of the two is running.                             *)
(* The POST /createroom route (src/server.js:239-260), the same in both,   *)
(* is modelled with its two awaited store calls.                           *)
(***************************************************************************)
EXTENDS Integers, Sequences, FiniteSets, TLC

\* ------------------------------------------------------------------ bounds
MaxEvents == 3     \* client events accepted (the connection events apart)
MaxDirect == 1     \* of these, send_message events
MaxRoom == 1       \* of these, send_room_message events
MaxCreate == 2     \* POST /createroom requests that pass authenticateToken
MaxDenied == 1     \* POST /createroom requests that authenticateToken turns away
MaxRaceEvents == 4 \* client events accepted in the longer runs of SpecRace

Handles == {"h1", "h2"}        \* socket.id values
HandleOrder == [h \in Handles |-> IF h = "h1" THEN 1 ELSE 2]
Users == {"u1", "u2"}          \* userId values a client may send
Rooms == {"r1"}                \* roomId values a client may send
Bodies == {"hi"}               \* message texts
RoomNames == {"general", "random"}   \* names a client may post to /createroom
None == "none"                 \* undefined: an absent key, lookup of nothing

VARIABLES
  variant,         \* "server" (src/server.js) or "legacy" (part_000)
  status,          \* socket -> "new" | "open" | "closed"
  connectedUsers,  \* ordered map userId => socket.id (insertion order of keys)
  typingUsers,     \* receiverId => Set<senderId>; the domain is the key set
  joined,          \* socket -> rooms joined with socket.join
  users,           \* ids of the rows of the users table
  messages,        \* rows of the messages table, in insertion order
  room_messages,   \* rows of the room_messages table, in insertion order
  rooms,           \* rows of the rooms table, in insertion order
  tasks,           \* invocations of the async handlers, in arrival order
  emitted,         \* every emit, in order
  now,             \* the wall clock as last read: the number of the second
  events,          \* history: the client events processed, in arrival order
  budget           \* the number of client events a run accepts; never changes

vars == <<variant, status, connectedUsers, typingUsers, joined, users, messages,
          room_messages, rooms, tasks, emitted, now, events, budget>>

\* ------------------------------------------------------- the ordered map
\* connectedUsers[userId]
Lookup(reg, userId) ==
  IF \E i \in 1..Len(reg) : reg[i].userId = userId
  THEN reg[CHOOSE i \in 1..Len(reg) : reg[i].userId = userId].sId
  ELSE None

RemoveAt(s, i) == SubSeq(s, 1, i - 1) \o SubSeq(s, i + 1, Len(s))

\* mutant: the first register of a user wins, a later one is ignored
RegisterFirstWins(reg, userId, sId) ==
  IF \E i \in 1..Len(reg) : reg[i].userId = userId
  THEN reg
  ELSE Append(reg, [userId |-> userId, sId |-> sId])

\* connectedUsers[userId] = socket.id
RegisterEntry(reg, userId, sId) ==
  IF \E i \in 1..Len(reg) : reg[i].userId = userId
  THEN [i \in 1..Len(reg) |->
          IF reg[i].userId = userId THEN [reg[i] EXCEPT !.sId = sId] ELSE reg[i]]
  ELSE Append(reg, [userId |-> userId, sId |-> sId])

\* mutant: the disconnect handler deletes the first entry without comparing
\* the stored socket id
UnregisterNoCompare(reg, sId) ==
  IF Len(reg) > 0 THEN RemoveAt(reg, 1) ELSE reg

\* mutant: the scan goes on after the first match and deletes every entry
\* bound to the socket
UnregisterEvery(reg, sId) ==
  LET Other(e) == e.sId # sId IN SelectSeq(reg, Other)

\* for (const [userId, sId] of Object.entries(connectedUsers))
\*   if (sId === socket.id) { delete connectedUsers[userId]; break; }
Unregister(reg, sId) ==
  IF \E i \in 1..Len(reg) : reg[i].sId = sId
  THEN RemoveAt(reg, CHOOSE i \in 1..Len(reg) :
                       /\ reg[i].sId = sId
                       /\ \A j \in 1..(i - 1) : reg[j].sId # sId)
  ELSE reg

\* ---------------------------------------------------- the typing tracker
TypingSet(t, receiverId) == IF receiverId \in DOMAIN t THEN t[receiverId] ELSE {}

\* if (!typingUsers[receiverId]) typingUsers[receiverId] = new Set();
\* typingUsers[receiverId].add(senderId);
SetTyping(t, senderId, receiverId) ==
  [k \in DOMAIN t \cup {receiverId} |->
     IF k = receiverId THEN TypingSet(t, receiverId) \cup {senderId} ELSE t[k]]

\* mutant: stop_typing leaves the tracker as it is
ClearTypingNoop(t, senderId, receiverId) == t

\* mutant: the sender is taken out of the set and the key is kept even when
\* the set is left empty
ClearTypingKeepsKey(t, senderId, receiverId) ==
  IF receiverId \in DOMAIN t
  THEN [t EXCEPT ![receiverId] = @ \ {senderId}]
  ELSE t

\* if (typingUsers[receiverId]) { .delete(senderId); if (size === 0) delete key }
ClearTyping(t, senderId, receiverId) ==
  IF receiverId \in DOMAIN t
  THEN IF t[receiverId] \ {senderId} = {}
       THEN [k \in DOMAIN t \ {receiverId} |-> t[k]]
       ELSE [t EXCEPT ![receiverId] = @ \ {senderId}]
  ELSE t

\* ---------------------------------------------------------------- emits
\* sockets a broadcast to room `room` reaches: every open socket is in the
\* room named by its own id and in the rooms it joined
InRoom(room) ==
  {h \in Handles : status[h] = "open" /\ (h = room \/ room \in joined[h])}

\* io.to(room).emit(ev, payload) issued by task `by`
IoEmit(room, ev, payload, by) ==
  [ev |-> ev, to |-> room, rcpt |-> InRoom(room), payload |-> payload,
   by |-> by, n |-> Len(events)]

\* socket.emit(ev, payload) on socket h, issued by task `by`
SocketEmit(h, ev, payload, by) ==
  [ev |-> ev, to |-> h, rcpt |-> IF status[h] = "open" THEN {h} ELSE {},
   payload |-> payload, by |-> by, n |-> Len(events)]

\* ------------------------------------------------------------- history
\* a client event: its name, the socket it arrived on, its arguments
Event(op, h, a, b) == [op |-> op, h |-> h, a |-> a, b |-> b]

EventNos == 1..Len(events)

\* the socket of the latest register event for userId, None without one
lastReg(userId) ==
  LET regs == {n \in EventNos : events[n].op = "register" /\ events[n].a = userId}
  IN IF regs = {} THEN None
     ELSE events[CHOOSE n \in regs : \A m \in regs : m <= n].h

\* the userIds registered on socket h so far
registered(h) ==
  {events[n].a : n \in {m \in EventNos : events[m].op = "register" /\ events[m].h = h}}

\* the typing events that no stop_typing for the same pair has followed
typingBy ==
  {n \in EventNos :
     /\ events[n].op = "typing"
     /\ ~\E m \in EventNos : /\ m > n
                              /\ events[m].op = "stop_typing"
                              /\ events[m].a = events[n].a
                              /\ events[m].b = events[n].b}

\* getTimeStamp(): the local wall clock cut to whole seconds.  Timestamps are
\* only stored, copied and compared, so the seconds are numbered as they are
\* read: a reading falls in the second of the reading before it or in a later
\* one, which gets the next number
getTimeStamp == {now, now + 1}

\* uuidv4(): a value no earlier call returned
uuidv4 == Len(tasks) + 1

\* the server once listening: empty maps, no socket, the tables as found
Constructed ==
  /\ variant \in {"server", "legacy"}
  /\ status = [h \in Handles |-> "new"]
  /\ connectedUsers = <<>>
  /\ typingUsers = [k \in {} |-> {}]
  /\ joined = [h \in Handles |-> {}]
  /\ users = {"u1"}
  /\ messages = <<>>
  /\ room_messages = <<>>
  /\ rooms = <<>>
  /\ tasks = <<>>
  /\ emitted = <<>>
  /\ now = 0
  /\ events = <<>>

Init == Constructed /\ budget = MaxEvents

\* the same start, with room for one more client event
InitRace == Constructed /\ budget = MaxRaceEvents

\* io.on("connection", (socket) => ...); socket ids are handed out in order
Connection(h) ==
  /\ status[h] = "new"
  /\ \A g \in Handles : HandleOrder[g] < HandleOrder[h] => status[g] # "new"
  /\ status' = [status EXCEPT ![h] = "open"]
  /\ UNCHANGED <<budget, rooms, variant, connectedUsers, typingUsers, joined, users, messages,
                 room_messages, tasks, emitted, now, events>>

\* socket.on("register", (userId) => ...)
Register(h, userId) ==
  /\ status[h] = "open"
  /\ Len(events) < budget
  /\ events' = Append(events, Event("register", h, userId, None))
  /\ connectedUsers' = RegisterEntry(connectedUsers, userId, h)
  /\ UNCHANGED <<budget, rooms, variant, status, typingUsers, joined, users, messages,
                 room_messages, tasks, emitted, now>>

\* socket.on("disconnect", () => ...); socket.io has by then taken the
\* socket out of every room
Disconnect(h) ==
  /\ status[h] = "open"
  /\ Len(events) < budget
  /\ events' = Append(events, Event("disconnect", h, None, None))
  /\ status' = [status EXCEPT ![h] = "closed"]
  /\ joined' = [joined EXCEPT ![h] = {}]
  /\ connectedUsers' = Unregister(connectedUsers, h)
  /\ UNCHANGED <<budget, rooms, variant, typingUsers, users, messages, room_messages, tasks,
                 emitted, now>>

\* socket.on("join_room", (roomId) => socket.join(roomId))
JoinRoom(h, roomId) ==
  /\ variant = "server"
  /\ status[h] = "open"
  /\ Len(events) < budget
  /\ events' = Append(events, Event("join_room", h, roomId, None))
  /\ joined' = [joined EXCEPT ![h] = @ \cup {roomId}]
  /\ UNCHANGED <<budget, rooms, variant, status, connectedUsers, typingUsers, users, messages,
                 room_messages, tasks, emitted, now>>

\* ------------------------------------------------------- typing handlers
\* mutant: the socket is looked up under the sender's id
TypingEmitToSender(ev, senderId, receiverId) ==
  IF Lookup(connectedUsers, senderId) # None
  THEN <<IoEmit(Lookup(connectedUsers, senderId), ev,
                [senderId |-> senderId], 0)>>
  ELSE <<>>

\* the emit of the typing / stop_typing handlers: to the receiver's socket
\* when connectedUsers has one, else nothing
TypingEmit(ev, senderId, receiverId) ==
  IF Lookup(connectedUsers, receiverId) # None
  THEN <<IoEmit(Lookup(connectedUsers, receiverId), ev,
                [senderId |-> senderId], 0)>>
  ELSE <<>>

\* socket.on("typing", ({ senderId, receiverId }) => ...)
Typing(h, senderId, receiverId) ==
  /\ variant = "server"
  /\ status[h] = "open"
  /\ Len(events) < budget
  /\ events' = Append(events, Event("typing", h, senderId, receiverId))
  /\ typingUsers' = SetTyping(typingUsers, senderId, receiverId)
  /\ emitted' = emitted \o TypingEmit("user_typing", senderId, receiverId)
  /\ UNCHANGED <<budget, rooms, variant, status, connectedUsers, joined, users, messages,
                 room_messages, tasks, now>>

\* socket.on("stop_typing", ({ senderId, receiverId }) => ...)
StopTyping(h, senderId, receiverId) ==
  /\ variant = "server"
  /\ status[h] = "open"
  /\ Len(events) < budget
  /\ events' = Append(events, Event("stop_typing", h, senderId, receiverId))
  /\ typingUsers' = ClearTyping(typingUsers, senderId, receiverId)
  /\ emitted' = emitted \o TypingEmit("user_stopped_typing", senderId, receiverId)
  /\ UNCHANGED <<budget, rooms, variant, status, connectedUsers, joined, users, messages,
                 room_messages, tasks, now>>

\* ------------------------------------------------------ message handlers
DirectKinds == {"send_message", "legacy_send_message"}

\* the synchronous head of an async handler: destructure the payload, take
\* the timestamp and the id, issue the first store call
NewTask(h, kind, senderId, target, message, timestamp, pc) ==
  [id |-> uuidv4, h |-> h, kind |-> kind, senderId |-> senderId,
   target |-> target, message |-> message, timestamp |-> timestamp,
   pc |-> pc, at |-> None, outcome |-> "pending"]

\* the invocations of the handlers of the given kinds so far
Invocations(kinds) == {id \in 1..Len(tasks) : tasks[id].kind \in kinds}

\* the handler returns; `at` keeps the store call it was awaiting last
Finish(id, outcome) ==
  [tasks EXCEPT ![id].pc = "done", ![id].at = tasks[id].pc,
                ![id].outcome = outcome]

\* mutant: the store calls are served strictly one after the other: a
\* handler resumes only when no earlier invocation is still waiting
AwaitingInTurn(kind, pc) ==
  {id \in 1..Len(tasks) :
     /\ tasks[id].kind = kind /\ tasks[id].pc = pc
     /\ \A j \in 1..(id - 1) : tasks[j].pc = "done"}

Awaiting(kind, pc) ==
  {id \in 1..Len(tasks) : tasks[id].kind = kind /\ tasks[id].pc = pc}

\* the row send_message inserts into messages
MessageRow(t) ==
  [id |-> t.id, sender_id |-> t.senderId, receiver_id |-> t.target,
   message_text |-> t.message, timestamp |-> t.timestamp]

\* the payload of receive_message and of message_sent
MessagePayload(t) ==
  [id |-> t.id, senderId |-> t.senderId, receiverId |-> t.target,
   message |-> t.message, timestamp |-> t.timestamp]

\* mutant: the receiver's socket is looked up under the sender's id
DirectDeliveryToSender(t) ==
  (IF Lookup(connectedUsers, t.senderId) # None
   THEN <<IoEmit(Lookup(connectedUsers, t.senderId), "receive_message",
                 MessagePayload(t), t.id)>>
   ELSE <<>>)
  \o <<SocketEmit(t.h, "message_sent", MessagePayload(t), t.id)>>

\* mutant: the sender is acknowledged only when the receiver is online
DirectDeliveryAckIfOnline(t) ==
  IF Lookup(connectedUsers, t.target) # None
  THEN <<IoEmit(Lookup(connectedUsers, t.target), "receive_message",
                MessagePayload(t), t.id),
         SocketEmit(t.h, "message_sent", MessagePayload(t), t.id)>>
  ELSE <<>>

\* src/server.js:66-85: what the handler emits once the insert has resolved
DirectDelivery(t) ==
  (IF Lookup(connectedUsers, t.target) # None
   THEN <<IoEmit(Lookup(connectedUsers, t.target), "receive_message",
                 MessagePayload(t), t.id)>>
   ELSE <<>>)
  \o <<SocketEmit(t.h, "message_sent", MessagePayload(t), t.id)>>

\* mutant: the catch block acknowledges the message all the same
DirectFailureAcks(t) ==
  <<SocketEmit(t.h, "error_message", [error |-> "Failed to send message."], t.id),
    SocketEmit(t.h, "message_sent", MessagePayload(t), t.id)>>

\* src/server.js:86-89: the catch block of send_message
DirectFailure(t) ==
  <<SocketEmit(t.h, "error_message", [error |-> "Failed to send message."], t.id)>>

\* socket.on("send_message", async (data) => ...) up to the await
SendMessage(h, senderId, receiverId, message) ==
  /\ variant = "server"
  /\ status[h] = "open"
  /\ Len(events) < budget
  /\ Cardinality(Invocations(DirectKinds)) < MaxDirect
  /\ events' = Append(events, Event("send_message", h, senderId, receiverId))
  /\ \E timestamp \in getTimeStamp :
       /\ now' = timestamp
       /\ tasks' = Append(tasks, NewTask(h, "send_message", senderId, receiverId,
                                         message, timestamp, "run"))
  /\ UNCHANGED <<budget, rooms, variant, status, connectedUsers, typingUsers, joined, users,
                 messages, room_messages, emitted>>

\* mutant: a message whose receiver has no socket is taken back out of the
\* table
SendMessageStoredUnlessOffline(id) ==
  /\ id \in Awaiting("send_message", "run")
  /\ messages' = IF Lookup(connectedUsers, tasks[id].target) = None
                 THEN messages
                 ELSE Append(messages, MessageRow(tasks[id]))
  /\ emitted' = emitted \o DirectDelivery(tasks[id])
  /\ tasks' = Finish(id, "ok")
  /\ UNCHANGED <<budget, rooms, variant, status, connectedUsers, typingUsers,
                 joined, users, room_messages, now, events>>

\* await db.run(INSERT INTO messages ...) resolves; the rest of the try block
SendMessageStored(id) ==
  /\ id \in Awaiting("send_message", "run")
  /\ messages' = Append(messages, MessageRow(tasks[id]))
  /\ emitted' = emitted \o DirectDelivery(tasks[id])
  /\ tasks' = Finish(id, "ok")
  /\ UNCHANGED <<budget, rooms, variant, status, connectedUsers, typingUsers, joined, users,
                 room_messages, now, events>>

\* await db.run(...) rejects; the catch block
SendMessageRejected(id) ==
  /\ id \in Awaiting("send_message", "run")
  /\ emitted' = emitted \o DirectFailure(tasks[id])
  /\ tasks' = Finish(id, "failed")
  /\ UNCHANGED <<budget, rooms, variant, status, connectedUsers, typingUsers, joined, users,
                 messages, room_messages, now, events>>

\* ---- the older send_message (src/unnamed/part_000:54-70): no try/catch,
\* ---- no id in the payload, no acknowledgement
LegacyPayload(t) ==
  [senderId |-> t.senderId, message |-> t.message, timestamp |-> t.timestamp]

LegacyDelivery(t) ==
  IF Lookup(connectedUsers, t.target) # None
  THEN <<IoEmit(Lookup(connectedUsers, t.target), "receive_message",
                LegacyPayload(t), t.id)>>
  ELSE <<>>

LegacySendMessage(h, senderId, receiverId, message) ==
  /\ variant = "legacy"
  /\ status[h] = "open"
  /\ Len(events) < budget
  /\ Cardinality(Invocations(DirectKinds)) < MaxDirect
  /\ events' = Append(events, Event("send_message", h, senderId, receiverId))
  /\ \E timestamp \in getTimeStamp :
       /\ now' = timestamp
       /\ tasks' = Append(tasks, NewTask(h, "legacy_send_message", senderId, receiverId,
                                         message, timestamp, "run"))
  /\ UNCHANGED <<budget, rooms, variant, status, connectedUsers, typingUsers, joined, users,
                 messages, room_messages, emitted>>

LegacySendMessageStored(id) ==
  /\ id \in Awaiting("legacy_send_message", "run")
  /\ messages' = Append(messages, MessageRow(tasks[id]))
  /\ emitted' = emitted \o LegacyDelivery(tasks[id])
  /\ tasks' = Finish(id, "ok")
  /\ UNCHANGED <<budget, rooms, variant, status, connectedUsers, typingUsers, joined, users,
                 room_messages, now, events>>

\* the awaited insert rejects and nothing catches it: the handler's promise
\* rejects unhandled, nothing is emitted
LegacySendMessageRejected(id) ==
  /\ id \in Awaiting("legacy_send_message", "run")
  /\ tasks' = Finish(id, "unhandled")
  /\ UNCHANGED <<budget, rooms, variant, status, connectedUsers, typingUsers, joined, users,
                 messages, room_messages, emitted, now, events>>

\* ---- send_room_message (src/server.js:92-130)
\* user.username of the users row with the given id
Username(userId) == <<"name", userId>>

RoomMessageRow(t) ==
  [id |-> t.id, room_id |-> t.target, sender_id |-> t.senderId,
   message_text |-> t.message, timestamp |-> t.timestamp]

RoomPayload(t) ==
  [id |-> t.id, roomId |-> t.target, senderId |-> t.senderId,
   sender_name |-> Username(t.senderId), message |-> t.message,
   timestamp |-> t.timestamp]

\* mutant: the broadcast leaves out the sender's own socket (socket.to)
RoomDeliveryExceptSender(t) ==
  <<[IoEmit(t.target, "room_message", RoomPayload(t), t.id)
       EXCEPT !.rcpt = @ \ {t.h}],
    SocketEmit(t.h, "room_message_sent", RoomPayload(t), t.id)>>

\* src/server.js:109-125: the broadcast and the sender's echo
RoomDelivery(t) ==
  <<IoEmit(t.target, "room_message", RoomPayload(t), t.id),
    SocketEmit(t.h, "room_message_sent", RoomPayload(t), t.id)>>

\* mutant: the broadcast and the echo go out before the insert is awaited,
\* so that a failed insert leaves them behind
RoomFailureAfterBroadcast(t) ==
  <<IoEmit(t.target, "room_message", RoomPayload(t), t.id),
    SocketEmit(t.h, "room_message_sent", RoomPayload(t), t.id),
    SocketEmit(t.h, "error_message",
               [error |-> "Failed to send room message."], t.id)>>

\* src/server.js:126-129: the catch block of send_room_message
RoomFailure(t) ==
  <<SocketEmit(t.h, "error_message",
               [error |-> "Failed to send room message."], t.id)>>

\* mutant: the handler does not test the row db.get returned
SenderResolvesAlways(userId) == TRUE

\* if (!user) throw ...: the users table has a row with this id
SenderResolves(userId) == userId \in users

\* socket.on("send_room_message", async (data) => ...) up to the first await
SendRoomMessage(h, senderId, roomId, message) ==
  /\ variant = "server"
  /\ status[h] = "open"
  /\ Len(events) < budget
  /\ Cardinality(Invocations({"send_room_message"})) < MaxRoom
  /\ events' = Append(events, Event("send_room_message", h, senderId, roomId))
  /\ \E timestamp \in getTimeStamp :
       /\ now' = timestamp
       /\ tasks' = Append(tasks, NewTask(h, "send_room_message", senderId, roomId,
                                         message, timestamp, "get"))
  /\ UNCHANGED <<budget, rooms, variant, status, connectedUsers, typingUsers, joined, users,
                 messages, room_messages, emitted>>

\* await db.get(SELECT username ...) resolves; a row issues the insert, no
\* row throws "User not found" into the catch block
RoomSenderLookedUp(id) ==
  /\ id \in Awaiting("send_room_message", "get")
  /\ \/ /\ SenderResolves(tasks[id].senderId)
        /\ tasks' = [tasks EXCEPT ![id].pc = "run"]
        /\ UNCHANGED emitted
     \/ /\ ~SenderResolves(tasks[id].senderId)
        /\ emitted' = emitted \o RoomFailure(tasks[id])
        /\ tasks' = Finish(id, "failed")
  /\ UNCHANGED <<budget, rooms, variant, status, connectedUsers, typingUsers, joined, users,
                 messages, room_messages, now, events>>

\* await db.get(...) rejects; the catch block
RoomLookupRejected(id) ==
  /\ id \in Awaiting("send_room_message", "get")
  /\ emitted' = emitted \o RoomFailure(tasks[id])
  /\ tasks' = Finish(id, "failed")
  /\ UNCHANGED <<budget, rooms, variant, status, connectedUsers, typingUsers, joined, users,
                 messages, room_messages, now, events>>

\* await db.run(INSERT INTO room_messages ...) resolves; the rest of the try
RoomMessageStored(id) ==
  /\ id \in Awaiting("send_room_message", "run")
  /\ room_messages' = Append(room_messages, RoomMessageRow(tasks[id]))
  /\ emitted' = emitted \o RoomDelivery(tasks[id])
  /\ tasks' = Finish(id, "ok")
  /\ UNCHANGED <<budget, rooms, variant, status, connectedUsers, typingUsers, joined, users,
                 messages, now, events>>

\* await db.run(...) rejects; the catch block
RoomMessageRejected(id) ==
  /\ id \in Awaiting("send_room_message", "run")
  /\ emitted' = emitted \o RoomFailure(tasks[id])
  /\ tasks' = Finish(id, "failed")
  /\ UNCHANGED <<budget, rooms, variant, status, connectedUsers, typingUsers, joined, users,
                 messages, room_messages, now, events>>

\* ---- POST /createroom (src/server.js:239-260; the older server has the
\* ---- same route, src/unnamed/part_000:162-183)
\* the row /createroom inserts into rooms
RoomRow(t) ==
  [id |-> t.id, name |-> t.target, created_at |-> t.timestamp,
   created_by |-> t.senderId]

\* db.get("SELECT * FROM rooms WHERE name = ?") returns a row
NameTaken(name) == \E r \in 1..Len(rooms) : rooms[r].name = name

\* authenticateToken turns the request away: no authorization header (400)
\* or a token jwt.verify rejects (401); the route handler does not run
CreateRoomDenied(token) ==
  /\ token \in {None, "invalid"}
  /\ Cardinality({id \in Invocations({"createroom"}) : tasks[id].at = "auth"})
       < MaxDenied
  /\ tasks' = Append(tasks,
       [NewTask(None, "createroom", None, None, None, None, "done")
          EXCEPT !.at = "auth",
                 !.outcome = IF token = None THEN "400 Missing token"
                                             ELSE "401 Invalid token"])
  /\ UNCHANGED <<budget, rooms, variant, status, connectedUsers, typingUsers, joined,
                 users, messages, room_messages, emitted, now, events>>

\* app.post("/createroom", authenticateToken, async (req, res) => ...) with a
\* token that carries userId, up to the first await
CreateRoom(userId, name) ==
  /\ Cardinality({id \in Invocations({"createroom"}) : tasks[id].at # "auth"})
       < MaxCreate
  /\ \E createdAt \in getTimeStamp :
       /\ now' = createdAt
       /\ tasks' = Append(tasks, NewTask(None, "createroom", userId, name, None,
                                         createdAt, "get"))
  /\ UNCHANGED <<budget, rooms, variant, status, connectedUsers, typingUsers, joined,
                 users, messages, room_messages, emitted, events>>

\* await db.get(SELECT * FROM rooms WHERE name = ?) resolves: a row answers
\* 400, no row issues the insert
RoomExistenceChecked(id) ==
  /\ id \in Awaiting("createroom", "get")
  /\ \/ /\ NameTaken(tasks[id].target)
        /\ tasks' = Finish(id, "400 Room already exists")
     \/ /\ ~NameTaken(tasks[id].target)
        /\ tasks' = [tasks EXCEPT ![id].pc = "run"]
  /\ UNCHANGED <<budget, rooms, variant, status, connectedUsers, typingUsers, joined,
                 users, messages, room_messages, emitted, now, events>>

\* await db.get(...) rejects; the catch block
RoomCheckRejected(id) ==
  /\ id \in Awaiting("createroom", "get")
  /\ tasks' = Finish(id, "500 Something went wrong.")
  /\ UNCHANGED <<budget, rooms, variant, status, connectedUsers, typingUsers, joined,
                 users, messages, room_messages, emitted, now, events>>

\* await db.run(INSERT INTO rooms ...) resolves; 201 with the room's id.
\* The statement carries no condition on the name, and the schema of
\* chatbox.db is not part of the source: the insert of a name that a row
\* already has may resolve (this step) or be rejected (the next one)
RoomInserted(id) ==
  /\ id \in Awaiting("createroom", "run")
  /\ rooms' = Append(rooms, RoomRow(tasks[id]))
  /\ tasks' = Finish(id, "201 Room created!")
  /\ UNCHANGED <<budget, variant, status, connectedUsers, typingUsers, joined, users,
                 messages, room_messages, emitted, now, events>>

\* await db.run(...) rejects; the catch block
RoomInsertRejected(id) ==
  /\ id \in Awaiting("createroom", "run")
  /\ tasks' = Finish(id, "500 Something went wrong.")
  /\ UNCHANGED <<budget, rooms, variant, status, connectedUsers, typingUsers, joined,
                 users, messages, room_messages, emitted, now, events>>

TaskIds == 1..(MaxDirect + MaxRoom)

RequestIds == 1..(MaxCreate + MaxDenied)

\* ------------------------------------------------------- specifications
Presence ==
  \/ \E h \in Handles : Connection(h)
  \/ \E h \in Handles, u \in Users : Register(h, u)
  \/ \E h \in Handles : Disconnect(h)

TypingEvents ==
  \/ \E h \in Handles, s \in Users, r \in Users : Typing(h, s, r)
  \/ \E h \in Handles, s \in Users, r \in Users : StopTyping(h, s, r)

DirectMessages ==
  \/ \E h \in Handles, s \in Users, r \in Users, m \in Bodies :
       SendMessage(h, s, r, m)
  \/ \E id \in TaskIds : SendMessageStored(id)
  \/ \E id \in TaskIds : SendMessageRejected(id)
  \/ \E h \in Handles, s \in Users, r \in Users, m \in Bodies :
       LegacySendMessage(h, s, r, m)
  \/ \E id \in TaskIds : LegacySendMessageStored(id)
  \/ \E id \in TaskIds : LegacySendMessageRejected(id)

RoomMessages ==
  \/ \E h \in Handles, r \in Rooms : JoinRoom(h, r)
  \/ \E h \in Handles, s \in Users, r \in Rooms, m \in Bodies :
       SendRoomMessage(h, s, r, m)
  \/ \E id \in TaskIds : RoomSenderLookedUp(id)
  \/ \E id \in TaskIds : RoomLookupRejected(id)
  \/ \E id \in TaskIds : RoomMessageStored(id)
  \/ \E id \in TaskIds : RoomMessageRejected(id)

\* every handler of the socket server
Next == Presence \/ TypingEvents \/ DirectMessages \/ RoomMessages

Spec == Init /\ [][Next]_vars

\* the presence registry and the typing handlers
NextTyping == Presence \/ TypingEvents

SpecTyping == Init /\ [][NextTyping]_vars

\* the presence registry and the direct-message handlers
NextDirect == Presence \/ DirectMessages

SpecDirect == Init /\ [][NextDirect]_vars

\* the same handlers over the longer runs
SpecRace == InitRace /\ [][NextDirect]_vars

\* the presence registry and the room handlers
NextRoom == Presence \/ RoomMessages

SpecRoom == Init /\ [][NextRoom]_vars

\* the /createroom route
NextCreateRoom ==
  \/ \E token \in {None, "invalid"} : CreateRoomDenied(token)
  \/ \E u \in Users, name \in RoomNames : CreateRoom(u, name)
  \/ \E id \in RequestIds : RoomExistenceChecked(id)
  \/ \E id \in RequestIds : RoomCheckRejected(id)
  \/ \E id \in RequestIds : RoomInserted(id)
  \/ \E id \in RequestIds : RoomInsertRejected(id)

SpecCreateRoom == Init /\ [][NextCreateRoom]_vars

\* ------------------------------------------------------------- claims
\* the number of the latest event matching (op, h, a), 0 without one
LastEventNo(op, h, a) ==
  LET ns == {n \in EventNos :
               events[n].op = op /\ events[n].h = h /\ events[n].a = a}
  IN IF ns = {} THEN 0 ELSE CHOOSE n \in ns : \A m \in ns : m <= n

Entries(a) == {reg \in 1..Len(connectedUsers) : connectedUsers[reg].userId = a}

\* C1: stale-disconnect guard.  When user a registered on socket h1, then
\* on another socket h2, and the disconnect of h1 is processed after that,
\* the registry still binds a to h2 (for as long as h2 itself stays open).
C1_StaleDisconnectGuard ==
  \A a \in Users, h1 \in Handles, h2 \in Handles :
    ( /\ h1 # h2
      /\ LastEventNo("register", h1, a) > 0
      /\ LastEventNo("register", h2, a) > LastEventNo("register", h1, a)
      /\ LastEventNo("disconnect", h1, None) > LastEventNo("register", h2, a)
      /\ status[h2] = "open" )
    => Lookup(connectedUsers, a) = h2

\* C1 witness: register(a) on h1, register(a) on h2, disconnect of h1, in
\* that order, and a is bound to h2
C1_Witness ==
  \E a \in Users, h1 \in Handles, h2 \in Handles :
    /\ h1 # h2
    /\ LastEventNo("register", h1, a) > 0
    /\ LastEventNo("register", h2, a) > LastEventNo("register", h1, a)
    /\ LastEventNo("disconnect", h1, None) > LastEventNo("register", h2, a)
    /\ status[h2] = "open"
    /\ Lookup(connectedUsers, a) = h2

\* C2: presence uniqueness.  In every reachable state each userId has at
\* most one entry in the registry, and the socket it is bound to is the
\* socket of the latest register event for that userId.
C2_PresenceUniqueness ==
  \A a \in Users :
    /\ Cardinality(Entries(a)) <= 1
    /\ Lookup(connectedUsers, a) # None => Lookup(connectedUsers, a) = lastReg(a)

\* C2 witness: a userId registered on two sockets one after the other and
\* bound to the later one
C2_Witness ==
  \E a \in Users, h1 \in Handles, h2 \in Handles :
    /\ h1 # h2
    /\ LastEventNo("register", h1, a) > 0
    /\ LastEventNo("register", h2, a) > LastEventNo("register", h1, a)
    /\ Cardinality(Entries(a)) = 1
    /\ Lookup(connectedUsers, a) = h2

\* an emit of user_stopped_typing{senderId: a} issued after event number n
StoppedTypingSince(a, n) ==
  \E i \in 1..Len(emitted) :
    /\ emitted[i].ev = "user_stopped_typing"
    /\ emitted[i].payload.senderId = a
    /\ emitted[i].n >= n

\* C3: typing cleanup on disconnect.  When typing{senderId: a, receiverId: b}
\* was processed on a socket registered for a, no stop_typing for the pair
\* followed, and that socket's disconnect has been processed, then either
\* user_stopped_typing{senderId: a} has been emitted since or the typing set
\* of b no longer contains a.
C3_TypingCleanupOnDisconnect ==
  \A n \in typingBy :
    ( /\ events[n].a \in registered(events[n].h)
      /\ LastEventNo("disconnect", events[n].h, None) > n )
    => \/ StoppedTypingSince(events[n].a, n)
       \/ events[n].a \notin TypingSet(typingUsers, events[n].b)

\* C9: idempotent typing clear.  A stop_typing step for (s, r) leaves the
\* typing set of r without s, whatever the tracker held before, and the
\* tracker update applied once more to the resulting tracker changes nothing.
C9_IdempotentTypingClear ==
  [][\A h \in Handles, s \in Users, r \in Users :
       StopTyping(h, s, r) =>
         /\ s \notin TypingSet(typingUsers', r)
         /\ ClearTyping(typingUsers', s, r) = typingUsers']_vars

\* C9 witness: typing and then stop_typing twice in a row for one pair, the
\* sender gone from the receiver's set
C9_Witness ==
  \E n \in EventNos :
    /\ n + 2 <= Len(events)
    /\ events[n].op = "typing"
    /\ events[n + 1].op = "stop_typing"
    /\ events[n + 2].op = "stop_typing"
    /\ events[n + 1].a = events[n].a /\ events[n + 1].b = events[n].b
    /\ events[n + 2].a = events[n].a /\ events[n + 2].b = events[n].b
    /\ events[n].a \notin TypingSet(typingUsers, events[n].b)

\* the emits task id issued under the event name ev
EmitsOf(id, ev) ==
  {i \in 1..Len(emitted) : emitted[i].by = id /\ emitted[i].ev = ev}

\* the message id an emit is about: the id in its payload, and for the older
\* handler, whose payload has none, the id its invocation gave the row
MessageIdOf(e) == IF "id" \in DOMAIN e.payload THEN e.payload.id ELSE e.by

StoredIds(table) == {table[i].id : i \in 1..Len(table)}

\* C4: message durability precedes delivery.  A send_message whose insert
\* failed has emitted neither receive_message nor message_sent, and every
\* receive_message or message_sent emitted is about a message id that has a
\* row in the messages table.
C4_DurabilityPrecedesDelivery ==
  /\ \A id \in 1..Len(tasks) :
       ( /\ tasks[id].kind \in DirectKinds
         /\ tasks[id].outcome \in {"failed", "unhandled"} )
       => /\ EmitsOf(id, "receive_message") = {}
          /\ EmitsOf(id, "message_sent") = {}
          /\ id \notin StoredIds(messages)
  /\ \A i \in 1..Len(emitted) :
       emitted[i].ev \in {"receive_message", "message_sent"}
       => MessageIdOf(emitted[i]) \in StoredIds(messages)

\* C4 witness: one send_message failed at the insert and its sender was told
\* so, while the receiver of the message was online
C4_Witness ==
  \E id \in 1..Len(tasks) :
    /\ tasks[id].kind = "send_message"
    /\ tasks[id].outcome = "failed"
    /\ EmitsOf(id, "error_message") # {}
    /\ Lookup(connectedUsers, tasks[id].target) # None

\* C6: direct-message acknowledgement.  Every send_message whose insert
\* succeeded has a message_sent emitted on the sender's own socket carrying
\* the generated id and the timestamp of the stored row, whether or not a
\* receive_message went out and whether or not it reached a socket.
C6_DirectMessageAcknowledgement ==
  \A id \in 1..Len(tasks) :
    (tasks[id].kind = "send_message" /\ tasks[id].outcome = "ok")
    => \E i \in EmitsOf(id, "message_sent"), r \in 1..Len(messages) :
         /\ emitted[i].to = tasks[id].h
         /\ messages[r].id = id
         /\ emitted[i].payload.id = messages[r].id
         /\ emitted[i].payload.timestamp = messages[r].timestamp

\* C6 witness: a send_message to a receiver that was offline when the
\* insert resolved, stored and acknowledged on the sender's open socket
C6_Witness ==
  \E id \in 1..Len(tasks) :
    /\ tasks[id].kind = "send_message" /\ tasks[id].outcome = "ok"
    /\ id \in StoredIds(messages)
    /\ EmitsOf(id, "receive_message") = {}
    /\ \E i \in EmitsOf(id, "message_sent") : emitted[i].rcpt = {tasks[id].h}

\* C8: end-to-end direct message.  When the insert of a send_message
\* {senderId: a, receiverId: b, message: m} resolves while a is registered on
\* the sending socket h1 and b on another socket h2, both open, the handler
\* emits receive_message to h2 with senderId a, message m and the timestamp
\* T, then message_sent to h1 with an id, message m and the same T, and the
\* messages table then holds a row with that id, a, b, m and T.
C8_EndToEndDirectMessage ==
  [][\A id \in TaskIds :
       ( /\ SendMessageStored(id)
         /\ Lookup(connectedUsers, tasks[id].senderId) = tasks[id].h
         /\ Lookup(connectedUsers, tasks[id].target) \in Handles \ {tasks[id].h}
         /\ status[Lookup(connectedUsers, tasks[id].target)] = "open"
         /\ status[tasks[id].h] = "open" )
       => LET k == Len(emitted)
              h2 == Lookup(connectedUsers, tasks[id].target)
          IN /\ Len(emitted') = k + 2
             /\ emitted'[k + 1].ev = "receive_message"
             /\ emitted'[k + 1].rcpt = {h2}
             /\ emitted'[k + 1].payload.senderId = tasks[id].senderId
             /\ emitted'[k + 1].payload.message = tasks[id].message
             /\ emitted'[k + 2].ev = "message_sent"
             /\ emitted'[k + 2].rcpt = {tasks[id].h}
             /\ emitted'[k + 2].payload.message = tasks[id].message
             /\ emitted'[k + 2].payload.timestamp = emitted'[k + 1].payload.timestamp
             /\ \E r \in 1..Len(messages') :
                  /\ messages'[r].id = emitted'[k + 2].payload.id
                  /\ messages'[r].id = emitted'[k + 1].payload.id
                  /\ messages'[r].sender_id = tasks[id].senderId
                  /\ messages'[r].receiver_id = tasks[id].target
                  /\ messages'[r].message_text = tasks[id].message
                  /\ messages'[r].timestamp = emitted'[k + 1].payload.timestamp
                  /\ \A q \in 1..Len(messages') : q # r => messages'[q].id # messages'[r].id]_vars

\* C8 witness: a registered on h1, b registered on h2, then a's send_message
\* on h1 stored and delivered: receive_message reached h2, message_sent h1
C8_Witness ==
  \E id \in 1..Len(tasks), a \in Users, b \in Users :
    LET t == tasks[id] IN
    /\ t.kind = "send_message" /\ t.outcome = "ok"
    /\ t.senderId = a /\ t.target = b /\ a # b
    /\ Len(events) = 3
    /\ events[3] = Event("send_message", t.h, a, b)
    /\ {events[1], events[2]} =
         {Event("register", t.h, a, None),
          Event("register", CHOOSE h \in Handles : h # t.h, b, None)}
    /\ \E i \in EmitsOf(id, "receive_message") :
         emitted[i].rcpt = {CHOOSE h \in Handles : h # t.h}
    /\ \E i \in EmitsOf(id, "message_sent") : emitted[i].rcpt = {t.h}
    /\ id \in StoredIds(messages)

DeliveryEvents ==
  {"receive_message", "message_sent", "room_message", "room_message_sent"}

\* the task has persisted its row or emitted a delivery event
HasEffect(id) ==
  \/ id \in StoredIds(messages) \cup StoredIds(room_messages)
  \/ \E i \in 1..Len(emitted) :
       emitted[i].by = id /\ emitted[i].ev \in DeliveryEvents

\* C5: message ordering.  Of two send_message / send_room_message events
\* that arrived on one socket, the later one persists nothing and emits
\* nothing before the earlier one has finished.
C5_MessageOrdering ==
  \A i \in 1..Len(tasks), j \in 1..Len(tasks) :
    ( /\ i < j
      /\ tasks[i].h = tasks[j].h
      /\ {tasks[i].kind, tasks[j].kind} \subseteq {"send_message", "send_room_message"}
      /\ HasEffect(j) )
    => tasks[i].pc = "done"

\* the sockets subscribed to roomId
Subscribers(roomId) ==
  {h \in Handles : status[h] = "open" /\ roomId \in joined[h]}

C10_UnknownSender ==
  \A id \in 1..Len(tasks) :
    ( /\ tasks[id].kind = "send_room_message"
      /\ tasks[id].senderId \notin users )
    => /\ id \notin StoredIds(room_messages)
       /\ EmitsOf(id, "room_message") = {}
       /\ EmitsOf(id, "room_message_sent") = {}
       /\ tasks[id].pc \in {"get", "done"}
       /\ tasks[id].pc = "done" =>
            /\ tasks[id].outcome = "failed"
            /\ \E i \in EmitsOf(id, "error_message") : emitted[i].to = tasks[id].h

\* C10 witness: the users lookup of a room message from an unknown sender
\* came back empty and the open sender socket got error_message
C10_Witness ==
  \E id \in 1..Len(tasks) :
    /\ tasks[id].kind = "send_room_message"
    /\ tasks[id].senderId \notin users
    /\ tasks[id].pc = "done"
    /\ \E i \in EmitsOf(id, "error_message") : emitted[i].rcpt = {tasks[id].h}
    /\ \E h \in Handles : tasks[id].target \in joined[h]

\* C11: room persistence failure precedes broadcast.  A send_room_message
\* whose insert into room_messages was rejected has no room_message and no
\* room_message_sent emitted for it, to any socket, and no row stored.
C11_RoomFailureBeforeBroadcast ==
  \A id \in 1..Len(tasks) :
    ( /\ tasks[id].kind = "send_room_message"
      /\ tasks[id].outcome = "failed"
      /\ tasks[id].at = "run" )
    => /\ EmitsOf(id, "room_message") = {}
       /\ EmitsOf(id, "room_message_sent") = {}
       /\ id \notin StoredIds(room_messages)

\* C11 witness: the insert of a room message from a known sender was
\* rejected while the sender's socket and another socket were subscribed to
\* the room, and the sender's socket got error_message
C11_Witness ==
  \E id \in 1..Len(tasks) :
    /\ tasks[id].kind = "send_room_message"
    /\ tasks[id].outcome = "failed" /\ tasks[id].at = "run"
    /\ tasks[id].senderId \in users
    /\ Subscribers(tasks[id].target) # {}
    /\ \E i \in EmitsOf(id, "error_message") : emitted[i].rcpt = {tasks[id].h}

\* C12: persistence failures are surfaced.  Every send_message whose insert
\* was rejected ends handled (the rejection is caught, it does not escape
\* the handler) with an error_message emitted on the sending socket.
C12_PersistenceFailureSurfaced ==
  \A id \in 1..Len(tasks) :
    ( /\ tasks[id].kind \in DirectKinds
      /\ tasks[id].pc = "done"
      /\ tasks[id].outcome # "ok" )
    => /\ tasks[id].outcome = "failed"
       /\ \E i \in EmitsOf(id, "error_message") : emitted[i].to = tasks[id].h

SendOps == {"send_message", "send_room_message"}

\* the number of the client event that started task id: the handlers append
\* to events and to tasks in the same step, so the k-th message event
\* started the k-th message task
SendEventNo(id) ==
  CHOOSE n \in EventNos :
    /\ events[n].op \in SendOps
    /\ Cardinality({m \in 1..n : events[m].op \in SendOps})
         = Cardinality({j \in 1..id : tasks[j].kind \in DirectKinds \cup SendOps})

\* a register event was processed on socket h before event number n
RegisteredBefore(h, n) ==
  \E m \in 1..(n - 1) : events[m].op = "register" /\ events[m].h = h

\* C13: registration required for message operations.  A send_message or
\* send_room_message that arrived on a socket on which no register event had
\* been processed persists nothing and emits no receive_message,
\* message_sent, room_message or room_message_sent.
C13_RegistrationRequired ==
  \A id \in 1..Len(tasks) :
    ( /\ tasks[id].kind \in SendOps
      /\ ~RegisteredBefore(tasks[id].h, SendEventNo(id)) )
    => ~HasEffect(id)

\* C14: room name uniqueness.  Whatever the interleaving of the /createroom
\* requests, no two rows of the rooms table have the same name, and a
\* request answered 400 "Room already exists" has inserted no row.
C14_RoomNameUniqueness ==
  /\ \A i \in 1..Len(rooms), j \in 1..Len(rooms) :
       i # j => rooms[i].name # rooms[j].name
  /\ \A id \in 1..Len(tasks) :
       ( /\ tasks[id].kind = "createroom"
         /\ tasks[id].outcome = "400 Room already exists" )
       => id \notin StoredIds(rooms)

\* C15: session close unregisters the handle.  Once the disconnect of
\* socket h has been processed, no entry of the registry is bound to h,
\* whatever register events were processed on h before, so the lookup of a
\* userId never returns a closed socket.
C15_CloseUnregistersHandle ==
  \A h \in Handles :
    status[h] = "closed" =>
      /\ \A i \in 1..Len(connectedUsers) : connectedUsers[i].sId # h
      /\ \A a \in Users : Lookup(connectedUsers, a) # h

\* the receive_message emits a step adds
NewReceives ==
  {i \in (Len(emitted) + 1)..Len(emitted') : emitted'[i].ev = "receive_message"}

\* the socket of the receiver's latest register has disconnected since the
\* send_message of task id arrived
ReceiverLeft(id) ==
  LET h == lastReg(tasks[id].target)
  IN /\ h # None
     /\ LastEventNo("disconnect", h, None) > SendEventNo(id)

\* the receiver registered on socket h after the send_message of task id
\* arrived, that register is the receiver's latest, and h is still open
ReceiverMovedTo(id, h) ==
  /\ lastReg(tasks[id].target) = h
  /\ LastEventNo("register", h, tasks[id].target) > SendEventNo(id)
  /\ status[h] = "open"

\* C16: direct-message delivery target under races.  When the insert of a
\* send_message resolves, a receive_message is emitted only to the socket
\* the registry binds to receiverId at that moment; when the receiver has
\* disconnected since the event arrived, none is emitted; when the receiver
\* has registered on a new socket since, it is emitted to that socket and to
\* no other.
C16_DeliveryTargetUnderRaces ==
  [][\A id \in TaskIds :
       SendMessageStored(id)
       => /\ \A i \in NewReceives :
               emitted'[i].to = Lookup(connectedUsers, tasks[id].target)
          /\ ReceiverLeft(id) => NewReceives = {}
          /\ \A h \in Handles :
               ReceiverMovedTo(id, h)
               => /\ NewReceives # {}
                  /\ \A i \in NewReceives : emitted'[i].to = h]_vars

\* C17: no dangling empty typing sets.  In every reachable state each
\* receiverId that is a key of the typing tracker maps to a non-empty set.
C17_NoEmptyTypingSets ==
  \A receiverId \in DOMAIN typingUsers : typingUsers[receiverId] # {}

\* C17 witness: the only sender typing to a receiver stopped and the
\* receiver's key went with it, while another receiver's key is still there
C17_Witness ==
  \E n \in EventNos, m \in EventNos :
    /\ n < m
    /\ events[n].op = "typing" /\ events[m].op = "stop_typing"
    /\ events[m].a = events[n].a /\ events[m].b = events[n].b
    /\ events[n].b \notin DOMAIN typingUsers
    /\ DOMAIN typingUsers # {}

\* C18: typing routing.  A typing (stop_typing) step for (s, r) puts s into
\* (takes s out of) the typing set of r and leaves every other set as it
\* was; when the registry binds r to a socket, the step emits exactly one
\* user_typing (user_stopped_typing) with senderId s, addressed to that
\* socket and reaching no other; when r has no entry, the step emits
\* nothing, and the tracker is updated all the same.
C18_TypingRouting ==
  [][\A h \in Handles, s \in Users, r \in Users :
       (Typing(h, s, r) \/ StopTyping(h, s, r))
       => LET bound == Lookup(connectedUsers, r)
              k == Len(emitted)
              typing == events'[Len(events')].op = "typing"
          IN /\ typing => TypingSet(typingUsers', r) = TypingSet(typingUsers, r) \cup {s}
             /\ ~typing => TypingSet(typingUsers', r) = TypingSet(typingUsers, r) \ {s}
             /\ \A q \in Users \ {r} :
                  TypingSet(typingUsers', q) = TypingSet(typingUsers, q)
             /\ bound # None =>
                  /\ Len(emitted') = k + 1
                  /\ SubSeq(emitted', 1, k) = emitted
                  /\ emitted'[k + 1].ev =
                       (IF typing THEN "user_typing" ELSE "user_stopped_typing")
                  /\ emitted'[k + 1].payload = [senderId |-> s]
                  /\ emitted'[k + 1].to = bound
                  /\ emitted'[k + 1].rcpt \subseteq {bound}
             /\ bound = None => emitted' = emitted]_vars

\* the emits issued while client event number m was handled
EmitsAt(m) == {i \in 1..Len(emitted) : emitted[i].n = m - 1 /\ emitted[i].by = 0}

\* C18 witness: one typing event whose receiver was bound to an open socket,
\* with user_typing reaching that socket, and one whose receiver had no
\* entry, with nothing emitted and the sender in the receiver's set
C18_Witness ==
  \E m \in EventNos, o \in EventNos :
    /\ events[m].op = "typing" /\ events[o].op = "typing"
    /\ \E i \in EmitsAt(m) :
         /\ emitted[i].ev = "user_typing"
         /\ emitted[i].payload.senderId = events[m].a
         /\ emitted[i].rcpt = {lastReg(events[m].b)}
    /\ EmitsAt(o) = {}
    /\ lastReg(events[o].b) = None
    /\ events[o].a \in TypingSet(typingUsers, events[o].b)

\* C19: persisted messages are permanent.  Every step, of whatever handler,
\* leaves each row of the messages and room_messages tables in place and
\* unchanged, and the step in which an insert resolves leaves the new row in
\* its table whether or not the delivery reached a socket.
C19_PersistedMessagesPermanent ==
  [][/\ Len(messages') >= Len(messages)
     /\ SubSeq(messages', 1, Len(messages)) = messages
     /\ Len(room_messages') >= Len(room_messages)
     /\ SubSeq(room_messages', 1, Len(room_messages)) = room_messages
     /\ \A id \in TaskIds :
          /\ SendMessageStored(id) =>
               /\ Len(messages') = Len(messages) + 1
               /\ messages'[Len(messages')].id = id
          /\ RoomMessageStored(id) =>
               /\ Len(room_messages') = Len(room_messages) + 1
               /\ room_messages'[Len(room_messages')].id = id]_vars

\* C19 witness: a direct message stored for a receiver that had no socket,
\* a room message stored as well, and a disconnect processed after the
\* direct message was stored, both rows in their tables
C19_Witness ==
  \E id \in StoredIds(messages), h \in Handles :
    /\ tasks[id].kind = "send_message"
    /\ EmitsOf(id, "receive_message") = {}
    /\ \E i \in EmitsOf(id, "message_sent") :
         emitted[i].n < LastEventNo("disconnect", h, None)
    /\ room_messages # <<>>

\* the invocations of send_message / send_room_message whose store call is
\* outstanding
Outstanding == {id \in 1..Len(tasks) : tasks[id].kind \in SendOps /\ tasks[id].pc # "done"}

\* C20: independence across connections.  While a store call of a
\* send_message or send_room_message of one socket is outstanding, a
\* register, a typing and a send_message arriving on any other open socket
\* can be handled at once, and a store call outstanding for that other socket
\* can resolve and its handler run to its end, the first call still
\* outstanding.  (Events are accepted as long as the run's budget lasts.)
C20_IndependenceAcrossConnections ==
  \A id \in Outstanding, h \in Handles :
    (h # tasks[id].h /\ status[h] = "open")
    => /\ Len(events) < budget =>
            /\ \A u \in Users : ENABLED Register(h, u)
            /\ \A s \in Users, r \in Users : ENABLED Typing(h, s, r)
            /\ Cardinality(Invocations(DirectKinds)) < MaxDirect =>
                 \A s \in Users, r \in Users, m \in Bodies :
                   ENABLED SendMessage(h, s, r, m)
       /\ \A other \in Outstanding :
            tasks[other].h = h =>
              /\ tasks[other].kind = "send_message" => ENABLED SendMessageStored(other)
              /\ (tasks[other].kind = "send_room_message" /\ tasks[other].pc = "get")
                   => ENABLED RoomSenderLookedUp(other)
              /\ (tasks[other].kind = "send_room_message" /\ tasks[other].pc = "run")
                   => ENABLED RoomMessageStored(other)

\* C20 witness: a send_message that arrived on one socket after a
\* send_room_message on the other has been stored, delivered to the
\* registered receiver and acknowledged, the earlier store call still
\* outstanding
C20_Witness ==
  \E first \in Outstanding, id \in 1..Len(tasks) :
    /\ first < id
    /\ tasks[id].h # tasks[first].h
    /\ tasks[id].kind = "send_message" /\ tasks[id].outcome = "ok"
    /\ id \in StoredIds(messages)
    /\ \E i \in EmitsOf(id, "receive_message") : emitted[i].rcpt # {}
    /\ \E i \in EmitsOf(id, "message_sent") : emitted[i].rcpt = {tasks[id].h}

\* the userIds whose binding a step changes
Rebound == {a \in Users : Lookup(connectedUsers', a) # Lookup(connectedUsers, a)}

\* the client event a step handles, None for a step that handles none (a
\* connection, a store call coming back)
Handled == IF Len(events') > Len(events) THEN events'[Len(events')].op ELSE None

\* C21: frame of the shared maps.  A register step for userId u binds u to
\* the socket and leaves every other user's binding and the whole typing
\* tracker as they were; a disconnect step removes at most one entry of the
\* registry, one bound to the closing socket, and leaves the others as they
\* were; every other step (typing, stop_typing, join_room, send_message,
\* send_room_message and the store calls coming back) leaves the registry
\* as it was.
C21_SharedMapsFrame ==
  [][/\ Handled = "register" =>
          /\ Rebound \subseteq {events'[Len(events')].a}
          /\ Lookup(connectedUsers', events'[Len(events')].a) = events'[Len(events')].h
          /\ Len(connectedUsers') <= Len(connectedUsers) + 1
          /\ typingUsers' = typingUsers
     /\ Handled = "disconnect" =>
          /\ Cardinality(Rebound) <= 1
          /\ Len(connectedUsers') >= Len(connectedUsers) - 1
          /\ \A a \in Rebound :
               /\ Lookup(connectedUsers, a) = events'[Len(events')].h
               /\ Lookup(connectedUsers', a) = None
     /\ Handled \notin {"register", "disconnect"} =>
          connectedUsers' = connectedUsers]_vars

\* C21 witness: two users registered one after the other, then the
\* disconnect of the first one's socket took exactly that user's entry and
\* left the other user bound
C21_Witness ==
  \E a \in Users, b \in Users, h \in Handles :
    /\ a # b
    /\ Len(events) = 3
    /\ events[1].op = "register" /\ events[1].a = a
    /\ events[2].op = "register" /\ events[2].a = b
    /\ events[3] = Event("disconnect", h, None, None)
    /\ events[1].h = h
    /\ Lookup(connectedUsers, a) = None
    /\ Lookup(connectedUsers, b) = events[2].h

====
